---- MODULE Spec2Model ----
(***************************************************************************)
(* XTS (xor-encrypt-xor with ciphertext stealing) block mode of            *)
(* block-modes/src/xts.rs, as a state machine: a caller constructs a mode  *)
(* instance (new / new_var), hands it a byte buffer and runs encrypt or    *)
(* decrypt, which consume the instance and rewrite the buffer in place.    *)
(***************************************************************************)
EXTENDS Integers, Sequences, FiniteSets, TLC

VARIABLES
    pc,        \* where the caller is: "idle", "ready", "rejected", inside a method, "fault"
    inst,      \* the mode instance (cipher, tweak), or NoInst
    ctor,      \* outcome of the last constructor call
    buffer,    \* the caller's byte buffer, mutated in place
    twin,      \* a second buffer run side by side under the same instance, or NoTwin
    bi,        \* index of the next block of the per-block loop
    parked,    \* decrypt's second_to_last_tweak
    calls,     \* the cipher calls of the current encrypt/decrypt, in order
    advances,  \* number of get_next_tweak calls of the current encrypt/decrypt
    result,    \* what the last method returned: "none", "Ok", "Err", "Fault"
    cur,       \* the encrypt/decrypt call in progress or last completed
    prev,      \* the encrypt/decrypt call completed before cur
    ncalls     \* number of encrypt/decrypt calls started

vars == <<pc, inst, ctor, buffer, twin, bi, parked, calls, advances, result, cur, prev, ncalls>>

-----------------------------------------------------------------------------
(* Bounds of the model *)

\* longest buffer handed to encrypt/decrypt (lengths 0..MaxLen are all tried)
MaxLen == 50
\* number of encrypt/decrypt calls in one behaviour
MaxCalls == 2

\* The only block size the mode accepts: 128 / 8.
XtsBlockSize == 16

\* usize arithmetic wraps modulo the word size in a build without overflow
\* checks.  Any modulus larger than MaxLen + 2 * XtsBlockSize gives the same
\* outcomes as 2^64; 2^30 keeps the values inside TLC's integers.
UsizeModulus == 2^30

NoInst == [none |-> "inst"]
NoTwin == [on |-> FALSE, buf |-> <<>>]
NoCall == [none |-> "call"]
NoCtor == [none |-> "ctor"]

-----------------------------------------------------------------------------
(* Bytes and blocks *)

Bit(x, i) == (x \div (2^i)) % 2

\* u8 ^ u8
XorByte(a, b) ==
    ((Bit(a,0) + Bit(b,0)) % 2)       + ((Bit(a,1) + Bit(b,1)) % 2) * 2
  + ((Bit(a,2) + Bit(b,2)) % 2) * 4   + ((Bit(a,3) + Bit(b,3)) % 2) * 8
  + ((Bit(a,4) + Bit(b,4)) % 2) * 16  + ((Bit(a,5) + Bit(b,5)) % 2) * 32
  + ((Bit(a,6) + Bit(b,6)) % 2) * 64  + ((Bit(a,7) + Bit(b,7)) % 2) * 128

\* utils::xor(buf, key): buf[i] ^= key[i]
xor(buf, key) == [i \in 1..Len(buf) |-> XorByte(buf[i], key[i])]

\* utils::swap(buf, mid): the first mid bytes move behind the remaining ones
swap(buf, mid) ==
    [i \in 1..Len(buf) |-> buf[((i - 1 + mid) % Len(buf)) + 1]]

\* utils::get_next_tweak: multiply the little-endian 128-bit value by x in
\* GF(2^128): shift left by one bit, and xor 0x87 into the least significant
\* byte when the bit shifted out was set.
get_next_tweak(t) ==
    [i \in 1..Len(t) |->
        IF i = 1
        THEN XorByte((t[1] * 2) % 256, IF t[Len(t)] >= 128 THEN 135 ELSE 0)
        ELSE ((t[i] * 2) % 256) + (t[i-1] \div 128)]

\* utils::to_blocks_uneven(buffer): the full blocks of the buffer; a trailing
\* partial segment is not part of any block.  The number of blocks:
to_blocks_uneven_len(buf, bs) == Len(buf) \div bs

\* bytes [off, off + n) of buf (off is 0-based, as in the source)
Bytes(buf, off, n) == SubSeq(buf, off + 1, off + n)

\* buf with bytes [off, off + Len(part)) replaced by part
Splice(buf, off, part) ==
    [i \in 1..Len(buf) |->
        IF i > off /\ i <= off + Len(part) THEN part[i - off] ELSE buf[i]]

-----------------------------------------------------------------------------
(* The block cipher the mode is generic over (trait BlockCipher): an         *)
(* external collaborator.  The model runs the mode over a small family of   *)
(* keyed permutations of byte blocks; decrypt_block is computed on its own, *)
(* not as the inverse of encrypt_block.                                     *)

\* C::BlockSize and C::KeySize of two cipher types
Cipher16 == [name |-> "c16", BlockSize |-> XtsBlockSize, KeySize |-> 2]
Cipher8  == [name |-> "c8",  BlockSize |-> 8,  KeySize |-> 2]
CipherTypes == {Cipher16, Cipher8}

KeyByte(c, i) == c.key[((i - 1) % Len(c.key)) + 1]

\* C::encrypt_block: out[i] = 5 * in[i+1] + key byte + i  (mod 256), indices cyclic
encrypt_block(c, b) ==
    [i \in 1..Len(b) |-> (5 * b[(i % Len(b)) + 1] + KeyByte(c, i) + i) % 256]

\* C::decrypt_block: in[j] = 205 * (out[j-1] - key byte - (j-1))  (mod 256)
decrypt_block(c, b) ==
    [j \in 1..Len(b) |->
        LET i == ((j + Len(b) - 2) % Len(b)) + 1
        IN  (205 * ((b[i] + 512 - KeyByte(c, i) - i) % 256)) % 256]

\* C::new_varkey(key): Ok(cipher) when the key has the cipher's key size
new_varkey_ok(ctype, key) == Len(key) = ctype.KeySize
new_varkey(ctype, key) == [type |-> ctype, key |-> key]

-----------------------------------------------------------------------------
(* Inputs of the caller *)

\* key material handed to new_var: lengths 3, 4 (= 2 * KeySize) and 5
KeyMaterial == { <<3, 250, 7>>, <<3, 250, 7, 92>>, <<7, 92, 3, 250>>, <<3, 250, 7, 92, 1>> }

\* IVs handed to new_var: lengths 15, 16, 17 and 8
IvBytes(n, a, b) == [i \in 1..n |-> (a * i + b) % 256]
IvMaterial == { IvBytes(15, 29, 200), IvBytes(16, 29, 200), IvBytes(17, 29, 200),
                IvBytes(8, 29, 200) }

\* ciphers handed to new
CipherInstances == { new_varkey(Cipher16, <<3, 250>>), new_varkey(Cipher16, <<7, 92>>),
                     new_varkey(Cipher8, <<3, 250>>) }

\* tweak blocks handed to new (a &Block<C>, so of the cipher's block size):
\* a raw one whose top bit is set, and the one new_var derives from
\* IvBytes(16, 29, 200) under the tweak key <<7, 92>>
TweakBlocks(ctype) ==
    IF ctype.BlockSize = XtsBlockSize
    THEN { IvBytes(16, 29, 200),
           encrypt_block(new_varkey(Cipher16, <<7, 92>>), IvBytes(16, 29, 200)) }
    ELSE { IvBytes(ctype.BlockSize, 29, 200) }

\* buffers: every length 0..MaxLen; bytes pairwise distinct within a buffer
\* (step 37), or one byte repeated (step 0)
PlainBytes(n, step) == [i \in 1..n |-> (step * i + 11) % 256]
Buffers == { PlainBytes(n, step) : n \in 0..MaxLen, step \in {37, 0} }

-----------------------------------------------------------------------------
(* Construction *)

\* the struct literal Xts { cipher, tweak, _p }
Xts(cipher, tweak) == [cipher |-> cipher, tweak |-> tweak]

\* What a constructor call did: its arguments, its outcome, how many cipher
\* instances it built and how many single-block cipher calls it made.
CtorRecord(path, ctype, key, iv, outcome, built, block_calls) ==
    [path |-> path, ctype |-> ctype, key |-> key, iv |-> iv, outcome |-> outcome,
     built |-> built, block_calls |-> block_calls]

\* the tweak key taken from the first half of the key material
TweakKeyFirstHalf(ctype, key) == SubSeq(key, 1, ctype.KeySize)

\* the data key and the tweak key of new_var: &key[..KeySize] and &key[KeySize..]
DataKey(ctype, key) == SubSeq(key, 1, ctype.KeySize)
TweakKey(ctype, key) == SubSeq(key, ctype.KeySize + 1, Len(key))

\* new_var's initial tweak: the IV copied into a block and encrypted in place
\* under the transient tweak cipher
InitialTweak(ctype, key, iv) ==
    encrypt_block(new_varkey(ctype, TweakKey(ctype, key)), iv)

\* the length test with "and" for "or"
InvalidKeyAndIvLength(ctype, key, iv) ==
    Len(key) # ctype.KeySize * 2 /\ Len(iv) # ctype.BlockSize

\* new_var's length test
InvalidKeyIvLength(ctype, key, iv) ==
    Len(key) # ctype.KeySize * 2 \/ Len(iv) # ctype.BlockSize

\* the calls a behaviour may start: one when a twin buffer runs alongside
CallLimit == IF twin.on THEN 1 ELSE MaxCalls

\* a panic: the thread of the caller ends
Panic(kind) ==
    /\ pc' = "fault"
    /\ result' = kind
    /\ inst' = NoInst

\* Err(InvalidKeyIvLength): the caller holds no instance and stops
Rejected ==
    /\ pc' = "rejected"
    /\ result' = "Err"
    /\ inst' = NoInst

\* the assertion as an upper bound only
BlockSizeAtMost(ctype) == ctype.BlockSize <= XtsBlockSize

\* assert_eq!(C::BlockSize::to_usize(), 128 / 8)
BlockSizeAccepted(ctype) == ctype.BlockSize = XtsBlockSize

\* fn new(cipher, _iv)
New(cipher, iv) ==
    /\ pc = "idle"
    /\ ncalls < CallLimit
    /\ IF ~ BlockSizeAccepted(cipher.type)
       THEN /\ Panic("Fault:assert")
            /\ ctor' = CtorRecord("new", cipher.type, cipher.key, iv, "Fault", 0, 0)
       ELSE /\ inst' = Xts(cipher, iv)
            /\ pc' = "ready"
            /\ result' = "none"
            /\ ctor' = CtorRecord("new", cipher.type, cipher.key, iv, "Ok", 0, 0)
    /\ UNCHANGED <<buffer, twin, bi, parked, calls, advances, cur, prev, ncalls>>

\* fn new_var(key, _iv)
NewVar(ctype, key, iv) ==
    /\ pc = "idle"
    /\ ncalls < CallLimit
    /\ IF ~ BlockSizeAccepted(ctype)
       THEN /\ Panic("Fault:assert")
            /\ ctor' = CtorRecord("new_var", ctype, key, iv, "Fault", 0, 0)
       ELSE IF InvalidKeyIvLength(ctype, key, iv)
       THEN /\ Rejected
            /\ ctor' = CtorRecord("new_var", ctype, key, iv, "Err", 0, 0)
       ELSE IF ~ new_varkey_ok(ctype, DataKey(ctype, key))
       THEN /\ Rejected
            /\ ctor' = CtorRecord("new_var", ctype, key, iv, "Err", 0, 0)
       ELSE IF ~ new_varkey_ok(ctype, TweakKey(ctype, key))
       THEN /\ Rejected
            /\ ctor' = CtorRecord("new_var", ctype, key, iv, "Err", 1, 0)
       ELSE /\ inst' = Xts(new_varkey(ctype, DataKey(ctype, key)),
                           InitialTweak(ctype, key, iv))
            /\ pc' = "ready"
            /\ result' = "none"
            /\ ctor' = CtorRecord("new_var", ctype, key, iv, "Ok", 2, 1)
    /\ UNCHANGED <<buffer, twin, bi, parked, calls, advances, cur, prev, ncalls>>

-----------------------------------------------------------------------------
(* The per-block transform *)

\* the per-block encryption without the xor after the cipher call
XexEncryptNoSecondXor(cipher, tweak, block) ==
    encrypt_block(cipher, xor(block, tweak))

\* xor(block, tweak); cipher.encrypt_block(block); xor(block, tweak)
XexEncrypt(cipher, tweak, block) ==
    xor(encrypt_block(cipher, xor(block, tweak)), tweak)

\* xor(block, tweak); cipher.decrypt_block(block); xor(block, tweak)
XexDecrypt(cipher, tweak, block) ==
    xor(decrypt_block(cipher, xor(block, tweak)), tweak)

\* one iteration of encrypt_blocks on block number k of buf
EncryptBlockAt(cipher, tweak, buf, k) ==
    LET bs == cipher.type.BlockSize
    IN  Splice(buf, k * bs, XexEncrypt(cipher, tweak, Bytes(buf, k * bs, bs)))

\* the iteration of decrypt_blocks reading block 0 whatever k is
DecryptBlockAtReadingFirst(cipher, tweak, buf, k) ==
    LET bs == cipher.type.BlockSize
    IN  Splice(buf, k * bs, XexDecrypt(cipher, tweak, Bytes(buf, 0, bs)))

\* one iteration of decrypt_blocks on block number k of buf
DecryptBlockAt(cipher, tweak, buf, k) ==
    LET bs == cipher.type.BlockSize
    IN  Splice(buf, k * bs, XexDecrypt(cipher, tweak, Bytes(buf, k * bs, bs)))

\* an entry of the log of cipher calls: direction, byte offset of the block
\* in the buffer, the tweak xor-ed around the call, the block before the xor
CipherCall(dir, off, tweak, block) ==
    [dir |-> dir, off |-> off, tweak |-> tweak, inp |-> block]

\* the same step on the twin buffer, when there is one
OnTwin(t, stepped) == IF t.on THEN [on |-> TRUE, buf |-> stepped] ELSE NoTwin

\* usize subtraction a - b: whether it overflows, and the value it wraps to
\* in a build without overflow checks
WrappingSub(a, b) == (a - b + UsizeModulus) % UsizeModulus
CheckedSub(a, b) == [overflow |-> a < b, value |-> WrappingSub(a, b)]

\* the record of a call that starts
CallRecord(kind) ==
    [kind |-> kind, cipher |-> inst.cipher, tweak0 |-> inst.tweak,
     before |-> buffer, twin_before |-> twin, after |-> <<>>]

StartCall(kind) ==
    /\ ncalls' = ncalls + 1
    /\ prev' = IF cur = NoCall THEN NoCall ELSE [cur EXCEPT !.after = buffer]
    /\ cur' = CallRecord(kind)
    /\ calls' = <<>>
    /\ advances' = 0
    /\ bi' = 0
    /\ ctor' = NoCtor

\* Ok(buffer): the instance was moved into the method and is dropped
ReturnOk ==
    /\ pc' = "idle"
    /\ result' = "Ok"
    /\ inst' = NoInst

-----------------------------------------------------------------------------
(* encrypt *)

\* StealInput turned by leftover instead of bs - leftover
StealInputTurnedByLeftover(buf, bs, leftover) ==
    swap(Bytes(buf, Len(buf) - bs, bs), leftover)

\* lines 89-90: the last bs bytes of the buffer, its first bs - leftover
\* bytes moved behind the trailing leftover bytes
StealInput(buf, bs, leftover) ==
    swap(Bytes(buf, Len(buf) - bs, bs), bs - leftover)

\* line 94: the last bs + leftover bytes of the buffer, the first leftover
\* bytes moved behind the block just encrypted
StealOutput(buf, bs, leftover) ==
    LET off == Len(buf) - leftover - bs
    IN  Splice(buf, off, swap(Bytes(buf, off, bs + leftover), leftover))

\* lines 89-94 on a buffer whose length is not a multiple of bs
EncryptSteal(cipher, tweak, buf) ==
    LET bs == cipher.type.BlockSize
        leftover == Len(buf) - (Len(buf) \div bs) * bs
        last_block == XexEncrypt(cipher, tweak, StealInput(buf, bs, leftover))
    IN  StealOutput(Splice(buf, Len(buf) - bs, last_block), bs, leftover)

\* LastBlockIndex taken from encrypted_len instead of buffer_length
LastBlockIndexFromEncryptedLen(buffer_length, bs) ==
    CheckedSub((buffer_length \div bs) * bs, bs)

\* line 87: let last_block_index = buffer_length - bs
LastBlockIndex(buffer_length, bs) == CheckedSub(buffer_length, bs)

\* encrypt is entered: bs, buffer_length, and the call of encrypt_blocks
EncryptStart ==
    /\ pc = "ready"
    /\ StartCall("enc")
    /\ pc' = "enc_blocks"
    /\ result' = "none"
    /\ UNCHANGED <<inst, buffer, twin, parked>>

\* one iteration of the loop of encrypt_blocks
EncryptBlock ==
    /\ pc = "enc_blocks"
    /\ bi < to_blocks_uneven_len(buffer, inst.cipher.type.BlockSize)
    /\ buffer' = EncryptBlockAt(inst.cipher, inst.tweak, buffer, bi)
    /\ twin' = OnTwin(twin, EncryptBlockAt(inst.cipher, inst.tweak, twin.buf, bi))
    /\ calls' = Append(calls,
                  CipherCall("enc", bi * inst.cipher.type.BlockSize, inst.tweak,
                      Bytes(buffer, bi * inst.cipher.type.BlockSize,
                            inst.cipher.type.BlockSize)))
    /\ inst' = [inst EXCEPT !.tweak = get_next_tweak(inst.tweak)]
    /\ advances' = advances + 1
    /\ bi' = bi + 1
    /\ UNCHANGED <<pc, ctor, parked, result, cur, prev, ncalls>>

\* lines 84-96, after the loop; overflow_checks is the build's choice for
\* arithmetic overflow: panic, or wrap
EncryptTail(overflow_checks) ==
    /\ pc = "enc_blocks"
    /\ bi = to_blocks_uneven_len(buffer, inst.cipher.type.BlockSize)
    /\ LET bs == inst.cipher.type.BlockSize
           buffer_length == Len(buffer)
           leftover == buffer_length - (buffer_length \div bs) * bs
           last_block_index == LastBlockIndex(buffer_length, bs)
       IN  IF buffer_length % bs = 0
           THEN /\ ReturnOk
                /\ UNCHANGED <<buffer, twin, calls>>
           ELSE IF last_block_index.overflow /\ overflow_checks
           THEN /\ Panic("Fault:overflow")
                /\ UNCHANGED <<buffer, twin, calls>>
           ELSE IF CheckedSub(buffer_length, last_block_index.value).overflow
                   /\ overflow_checks
           THEN /\ Panic("Fault:overflow")
                /\ UNCHANGED <<buffer, twin, calls>>
           ELSE IF CheckedSub(buffer_length, last_block_index.value).value # bs
           THEN /\ Panic("Fault:assert")
                /\ UNCHANGED <<buffer, twin, calls>>
           ELSE IF last_block_index.value > buffer_length
           THEN /\ Panic("Fault:index")
                /\ UNCHANGED <<buffer, twin, calls>>
           ELSE /\ buffer' = EncryptSteal(inst.cipher, inst.tweak, buffer)
                /\ twin' = OnTwin(twin, EncryptSteal(inst.cipher, inst.tweak, twin.buf))
                /\ calls' = Append(calls,
                              CipherCall("enc", last_block_index.value, inst.tweak,
                                         StealInput(buffer, bs, leftover)))
                /\ ReturnOk
    /\ UNCHANGED <<ctor, bi, parked, advances, cur, prev, ncalls>>

-----------------------------------------------------------------------------
(* decrypt *)

\* DecryptExchange with the second swap turned by bs - leftover
DecryptExchangeWrongTurn(buf, bs, leftover) ==
    LET off == Len(buf) - leftover - bs
        first == Splice(buf, off, swap(Bytes(buf, off, bs + leftover), bs))
    IN  Splice(first, Len(buf) - bs,
               swap(Bytes(first, Len(buf) - bs, bs), bs - leftover))

\* lines 118-119: the block decrypted under the final tweak goes behind the
\* trailing leftover bytes, then its first leftover bytes go to the very end
DecryptExchange(buf, bs, leftover) ==
    LET off == Len(buf) - leftover - bs
        first == Splice(buf, off, swap(Bytes(buf, off, bs + leftover), bs))
    IN  Splice(first, Len(buf) - bs, swap(Bytes(first, Len(buf) - bs, bs), leftover))

\* the tweak parked after it is advanced
AdvanceThenPark(tweak) ==
    [parked |-> get_next_tweak(tweak), tweak |-> get_next_tweak(tweak)]

\* num_of_full_blocks - 1 as a saturating subtraction
BlocksUptoSaturating(num_of_full_blocks) ==
    [overflow |-> FALSE,
     value |-> IF num_of_full_blocks < 1 THEN 0 ELSE num_of_full_blocks - 1]

\* line 104: num_of_full_blocks - 1, the end of the range of blocks handed
\* to decrypt_blocks
BlocksUpto(num_of_full_blocks) == CheckedSub(num_of_full_blocks, 1)

\* lines 107-108: the current tweak is parked, and the tweak advanced
ParkAndAdvance(tweak) == [parked |-> tweak, tweak |-> get_next_tweak(tweak)]

\* decrypt is entered: lines 101-104 up to the slice handed to decrypt_blocks
DecryptStart(overflow_checks) ==
    /\ pc = "ready"
    /\ StartCall("dec")
    /\ LET bs == inst.cipher.type.BlockSize
           num_of_full_blocks == Len(buffer) \div bs
           upto == BlocksUpto(num_of_full_blocks)
       IN  IF upto.overflow /\ overflow_checks
           THEN /\ Panic("Fault:overflow")
           ELSE IF upto.value > to_blocks_uneven_len(buffer, bs)
           THEN /\ Panic("Fault:index")
           ELSE /\ pc' = "dec_blocks"
                /\ result' = "none"
                /\ inst' = inst
    /\ UNCHANGED <<buffer, twin, parked>>

\* one iteration of the loop of decrypt_blocks, over blocks[..num_of_full_blocks - 1]
DecryptBlock ==
    /\ pc = "dec_blocks"
    /\ bi < BlocksUpto(Len(buffer) \div inst.cipher.type.BlockSize).value
    /\ buffer' = DecryptBlockAt(inst.cipher, inst.tweak, buffer, bi)
    /\ twin' = OnTwin(twin, DecryptBlockAt(inst.cipher, inst.tweak, twin.buf, bi))
    /\ calls' = Append(calls,
                  CipherCall("dec", bi * inst.cipher.type.BlockSize, inst.tweak,
                      Bytes(buffer, bi * inst.cipher.type.BlockSize,
                            inst.cipher.type.BlockSize)))
    /\ inst' = [inst EXCEPT !.tweak = get_next_tweak(inst.tweak)]
    /\ advances' = advances + 1
    /\ bi' = bi + 1
    /\ UNCHANGED <<pc, ctor, parked, result, cur, prev, ncalls>>

\* lines 106-116: the tweak is parked and advanced, and the last full block
\* is decrypted under the advanced tweak
DecryptSteal ==
    /\ pc = "dec_blocks"
    /\ bi = BlocksUpto(Len(buffer) \div inst.cipher.type.BlockSize).value
    /\ Len(buffer) % inst.cipher.type.BlockSize # 0
    /\ LET bs == inst.cipher.type.BlockSize
           num_of_full_blocks == Len(buffer) \div bs
           tweak == ParkAndAdvance(inst.tweak).tweak
       IN  /\ parked' = ParkAndAdvance(inst.tweak).parked
           /\ inst' = [inst EXCEPT !.tweak = tweak]
           /\ advances' = advances + 1
           /\ buffer' = DecryptBlockAt(inst.cipher, tweak, buffer, num_of_full_blocks - 1)
           /\ twin' = OnTwin(twin,
                        DecryptBlockAt(inst.cipher, tweak, twin.buf, num_of_full_blocks - 1))
           /\ calls' = Append(calls,
                         CipherCall("dec", (num_of_full_blocks - 1) * bs, tweak,
                                    Bytes(buffer, (num_of_full_blocks - 1) * bs, bs)))
    /\ pc' = "dec_swap"
    /\ UNCHANGED <<ctor, bi, result, cur, prev, ncalls>>

\* lines 118-120: the byte exchange, then the parked tweak is restored
DecryptSwap ==
    /\ pc = "dec_swap"
    /\ LET bs == inst.cipher.type.BlockSize
           leftover == Len(buffer) - (Len(buffer) \div bs) * bs
       IN  /\ buffer' = DecryptExchange(buffer, bs, leftover)
           /\ twin' = OnTwin(twin, DecryptExchange(twin.buf, bs, leftover))
    /\ inst' = [inst EXCEPT !.tweak = parked]
    /\ pc' = "dec_last"
    /\ UNCHANGED <<ctor, bi, parked, calls, advances, result, cur, prev, ncalls>>

\* line 106 when the length is a multiple of the block size: nothing to steal
DecryptNoSteal ==
    /\ pc = "dec_blocks"
    /\ bi = BlocksUpto(Len(buffer) \div inst.cipher.type.BlockSize).value
    /\ Len(buffer) % inst.cipher.type.BlockSize = 0
    /\ pc' = "dec_last"
    /\ UNCHANGED <<inst, ctor, buffer, twin, bi, parked, calls, advances, result,
                   cur, prev, ncalls>>

\* lines 122-126: the block at num_of_full_blocks - 1 under the current tweak
DecryptLast ==
    /\ pc = "dec_last"
    /\ LET bs == inst.cipher.type.BlockSize
           num_of_full_blocks == Len(buffer) \div bs
       IN  /\ buffer' = DecryptBlockAt(inst.cipher, inst.tweak, buffer,
                                       num_of_full_blocks - 1)
           /\ twin' = OnTwin(twin, DecryptBlockAt(inst.cipher, inst.tweak, twin.buf,
                                                  num_of_full_blocks - 1))
           /\ calls' = Append(calls,
                         CipherCall("dec", (num_of_full_blocks - 1) * bs, inst.tweak,
                                    Bytes(buffer, (num_of_full_blocks - 1) * bs, bs)))
    /\ ReturnOk
    /\ UNCHANGED <<ctor, bi, parked, advances, cur, prev, ncalls>>

-----------------------------------------------------------------------------
(* Specifications *)

InitCommon ==
    /\ pc = "idle"
    /\ inst = NoInst
    /\ ctor = NoCtor
    /\ buffer \in Buffers
    /\ bi = 0
    /\ parked = <<>>
    /\ calls = <<>>
    /\ advances = 0
    /\ result = "none"
    /\ cur = NoCall
    /\ prev = NoCall
    /\ ncalls = 0

Init ==
    /\ InitCommon
    /\ twin = NoTwin

Next ==
    \/ \E cipher \in CipherInstances : \E iv \in TweakBlocks(cipher.type) : New(cipher, iv)
    \/ \E ctype \in CipherTypes : \E key \in KeyMaterial : \E iv \in IvMaterial :
          NewVar(ctype, key, iv)
    \/ EncryptStart
    \/ EncryptBlock
    \/ \E overflow_checks \in BOOLEAN : EncryptTail(overflow_checks)
    \/ \E overflow_checks \in BOOLEAN : DecryptStart(overflow_checks)
    \/ DecryptBlock
    \/ DecryptSteal
    \/ DecryptSwap
    \/ DecryptNoSteal
    \/ DecryptLast

Spec == Init /\ [][Next]_vars

\* one bit of one byte of a buffer flipped (pos is 1-based)
FlipBit(buf, pos, bit) ==
    [i \in 1..Len(buf) |-> IF i = pos THEN XorByte(buf[i], 2^bit) ELSE buf[i]]

FlippedBits == {0, 7}

\* Two buffers that differ in one bit go through the same call side by side.
InitTwin ==
    /\ InitCommon
    /\ twin \in { [on |-> TRUE, buf |-> FlipBit(buffer, pos, bit)] :
                    pos \in 1..Len(buffer), bit \in FlippedBits }

SpecTwin == InitTwin /\ [][Next]_vars

-----------------------------------------------------------------------------
(* Properties *)

\* the tweak after j advances
RECURSIVE TweakAt(_, _)
TweakAt(t0, j) == IF j = 0 THEN t0 ELSE get_next_tweak(TweakAt(t0, j - 1))

\* the last encrypt/decrypt call has returned Ok and no constructor ran since
Completed(kind) ==
    /\ pc = "idle"
    /\ result = "Ok"
    /\ cur # NoCall
    /\ cur.kind = kind

\* a call of encrypt or decrypt is running or was the last thing that ran
InCall == cur # NoCall /\ ctor = NoCtor

MethodPcs == {"enc_blocks", "dec_blocks", "dec_swap", "dec_last"}

\* inside a method some step is possible: the loops have not run past their
\* end (the guards of the actions of encrypt and decrypt)
MethodCanStep ==
    \/ pc = "enc_blocks" /\ bi <= Len(buffer) \div XtsBlockSize
    \/ pc = "dec_blocks" /\ bi <= (Len(buffer) \div XtsBlockSize) - 1
    \/ pc \in {"dec_swap", "dec_last"}

\* C1: encrypt, then decrypt under a fresh instance built from the same
\* cipher and initial tweak, gives back the plaintext, for every length >= 16
\* (multiples of 16 and lengths 16n + r alike).
RoundTrip ==
    ( /\ Completed("dec")
      /\ prev # NoCall
      /\ prev.kind = "enc"
      /\ prev.cipher = cur.cipher
      /\ prev.tweak0 = cur.tweak0
      /\ Len(prev.before) >= XtsBlockSize )
    => buffer = prev.before

RoundTripWitness ==
    /\ Completed("dec")
    /\ prev # NoCall
    /\ prev.kind = "enc"
    /\ prev.cipher = cur.cipher
    /\ prev.tweak0 = cur.tweak0
    /\ Len(prev.before) > 2 * XtsBlockSize
    /\ Len(prev.before) % XtsBlockSize # 0
    /\ cur.before # prev.before
    /\ buffer = prev.before

\* C2: on a buffer of at least 16 bytes encrypt and decrypt never fault and
\* never return Err; they always have a next step until they return Ok, and
\* the buffer keeps its length.
NoFaultFromOneBlock ==
    ( InCall /\ Len(cur.before) >= XtsBlockSize )
    => /\ pc # "fault"
       /\ result \in {"none", "Ok"}
       /\ Len(buffer) = Len(cur.before)
       /\ pc \in MethodPcs => MethodCanStep
       /\ pc \in MethodPcs \/ (pc = "idle" /\ result = "Ok")

NoFaultWitness ==
    /\ Completed("enc")
    /\ Len(cur.before) % XtsBlockSize # 0
    /\ Len(cur.before) > XtsBlockSize
    /\ Len(buffer) = Len(cur.before)

\* C3: new_var over a 16-byte-block cipher with a key that is not twice the
\* key size long, or an IV that is not one block long, returns the
\* InvalidKeyIvLength error: no cipher is built, no block is encrypted or
\* decrypted, and there is no mode instance.
NewVarRejectsBadLengths ==
    ( /\ ctor # NoCtor
      /\ ctor.path = "new_var"
      /\ ctor.ctype.BlockSize = XtsBlockSize
      /\ (Len(ctor.key) # 2 * ctor.ctype.KeySize \/ Len(ctor.iv) # ctor.ctype.BlockSize) )
    => /\ ctor.outcome = "Err"
       /\ result = "Err"
       /\ pc = "rejected"
       /\ ctor.built = 0
       /\ ctor.block_calls = 0
       /\ inst = NoInst

NewVarRejectsWitness ==
    /\ ctor # NoCtor
    /\ ctor.path = "new_var"
    /\ ctor.ctype.BlockSize = XtsBlockSize
    /\ Len(ctor.key) = 2 * ctor.ctype.KeySize
    /\ Len(ctor.iv) = ctor.ctype.BlockSize + 1
    /\ result = "Err"

NoInstanceOverOtherBlockSize ==
    /\ inst # NoInst => inst.cipher.type.BlockSize = XtsBlockSize
    /\ ( ctor # NoCtor /\ ctor.ctype.BlockSize # XtsBlockSize )
       => /\ ctor.outcome = "Fault"
          /\ pc = "fault"
          /\ result = "Fault:assert"
          /\ inst = NoInst
          /\ ctor.built = 0
          /\ ctor.block_calls = 0

OtherBlockSizeWitness ==
    /\ ctor # NoCtor
    /\ ctor.path = "new_var"
    /\ ctor.ctype.BlockSize # XtsBlockSize
    /\ Len(ctor.key) # 2 * ctor.ctype.KeySize
    /\ pc = "fault"

\* block number j of a buffer
BlockOf(buf, j) == Bytes(buf, j * XtsBlockSize, XtsBlockSize)

\* C7: on a buffer of exactly 16n bytes, block j becomes E(P_j xor T_j) xor T_j
\* (encrypt) or D(C_j xor T_j) xor T_j (decrypt), with T_0 the initial tweak
\* and T_(j+1) = next_tweak(T_j); the blocks are processed in increasing
\* order, one cipher call each, and the tweak is advanced once between two
\* consecutive blocks; no stealing step runs.
WholeBlocksTransform ==
    \A kind \in {"enc", "dec"} :
      ( Completed(kind) /\ Len(cur.before) % XtsBlockSize = 0
                        /\ Len(cur.before) >= XtsBlockSize )
      => LET n == Len(cur.before) \div XtsBlockSize
             T(j) == TweakAt(cur.tweak0, j)
         IN  /\ Len(buffer) = Len(cur.before)
             /\ Len(calls) = n
             /\ advances = IF kind = "enc" THEN n ELSE n - 1
             /\ \A j \in 0..(n - 1) :
                  /\ calls[j + 1] = CipherCall(kind, j * XtsBlockSize, T(j),
                                               BlockOf(cur.before, j))
                  /\ BlockOf(buffer, j) =
                       IF kind = "enc"
                       THEN xor(encrypt_block(cur.cipher, xor(BlockOf(cur.before, j), T(j))),
                                T(j))
                       ELSE xor(decrypt_block(cur.cipher, xor(BlockOf(cur.before, j), T(j))),
                                T(j))

WholeBlocksWitness ==
    /\ Completed("dec")
    /\ Len(cur.before) = 3 * XtsBlockSize
    /\ Len(calls) = 3
    /\ buffer # cur.before

\* C8: encrypt on 16m + r bytes (m >= 1, 0 < r < 16), with CC the
\* xex-encryption of the last full plaintext block under T_(m-1): the final r
\* bytes of the output are CC[0..r]; output bytes [16(m-1), 16m) are
\* E(X xor T_m) xor T_m for X = the r trailing plaintext bytes followed by
\* CC[r..16]; T_m is the tweak after exactly m advances; blocks 0..m-2 are the
\* plain per-block transforms.
StealingLayout ==
    ( Completed("enc") /\ Len(cur.before) % XtsBlockSize # 0
                       /\ Len(cur.before) >= XtsBlockSize )
    => LET m == Len(cur.before) \div XtsBlockSize
           r == Len(cur.before) % XtsBlockSize
           P == cur.before
           T(j) == TweakAt(cur.tweak0, j)
           E(b, t) == xor(encrypt_block(cur.cipher, xor(b, t)), t)
           CC == E(BlockOf(P, m - 1), T(m - 1))
           X == Bytes(P, m * XtsBlockSize, r) \o SubSeq(CC, r + 1, XtsBlockSize)
       IN  /\ Len(buffer) = Len(P)
           /\ Bytes(buffer, m * XtsBlockSize, r) = SubSeq(CC, 1, r)
           /\ BlockOf(buffer, m - 1) = E(X, T(m))
           /\ \A j \in 0..(m - 2) : BlockOf(buffer, j) = E(BlockOf(P, j), T(j))
           /\ advances = m
           /\ Len(calls) = m + 1
           /\ calls[m + 1].tweak = T(m)

StealingLayoutWitness ==
    /\ Completed("enc")
    /\ Len(cur.before) = 2 * XtsBlockSize + 5
    /\ Len(calls) = 3
    /\ Bytes(buffer, 2 * XtsBlockSize, 5) # Bytes(cur.before, 2 * XtsBlockSize, 5)

\* C9: decrypt on 16n + r bytes (n >= 1, 0 < r < 16): blocks 0..n-2 are
\* decrypted in order under T_0..T_(n-2); T_(n-1) is parked and the full
\* ciphertext block at [16(n-1), 16n) is decrypted under T_n; only after the
\* byte exchange is T_(n-1) restored, and the block reassembled at
\* [16(n-1), 16n), the r trailing ciphertext bytes followed by the stolen
\* 16 - r bytes, is decrypted under it.  n + 1 decrypt_block calls in all.
DecryptTweakOrder ==
    ( InCall /\ cur.kind = "dec" /\ Len(cur.before) % XtsBlockSize # 0
             /\ Len(cur.before) >= XtsBlockSize )
    => LET n == Len(cur.before) \div XtsBlockSize
           r == Len(cur.before) % XtsBlockSize
           C == cur.before
           T(j) == TweakAt(cur.tweak0, j)
           D(b, t) == xor(decrypt_block(cur.cipher, xor(b, t)), t)
           reassembled == Bytes(C, n * XtsBlockSize, r)
                            \o SubSeq(D(BlockOf(C, n - 1), T(n)), r + 1, XtsBlockSize)
       IN  /\ \A k \in 1..Len(calls) :
                /\ calls[k].dir = "dec"
                /\ k <= n - 1 => calls[k] = CipherCall("dec", (k - 1) * XtsBlockSize,
                                                       T(k - 1), BlockOf(C, k - 1))
                /\ k = n => calls[k] = CipherCall("dec", (n - 1) * XtsBlockSize,
                                                  T(n), BlockOf(C, n - 1))
                /\ k = n + 1 => calls[k] = CipherCall("dec", (n - 1) * XtsBlockSize,
                                                      T(n - 1), reassembled)
           /\ Len(calls) <= n + 1
           /\ pc = "dec_blocks" => Len(calls) = bi /\ inst.tweak = T(bi) /\ bi <= n - 1
           /\ pc = "dec_swap" =>
                Len(calls) = n /\ parked = T(n - 1) /\ inst.tweak = T(n)
           /\ pc = "dec_last" =>
                /\ Len(calls) = n
                /\ inst.tweak = T(n - 1)
                /\ BlockOf(buffer, n - 1) = reassembled
           /\ pc = "idle" => Len(calls) = n + 1 /\ result = "Ok"
           /\ pc \in {"dec_blocks", "dec_swap", "dec_last", "idle"}

DecryptTweakOrderWitness ==
    /\ Completed("dec")
    /\ Len(cur.before) = 3 * XtsBlockSize + 2
    /\ Len(calls) = 4
    /\ calls[3].tweak = get_next_tweak(calls[4].tweak)
    /\ calls[3].off = calls[4].off

\* C10: a buffer shorter than 16 bytes is not validated: neither method
\* returns Err, calls the cipher or changes a byte; decrypt faults for every
\* such length, 0 included; encrypt faults for the lengths 1..15 and returns
\* Ok for the empty buffer.
ShortBuffers ==
    ( InCall /\ Len(cur.before) < XtsBlockSize )
    => /\ result # "Err"
       /\ calls = <<>>
       /\ buffer = cur.before
       /\ cur.kind = "dec" =>
            pc = "fault" /\ result \in {"Fault:overflow", "Fault:index"}
       /\ (cur.kind = "enc" /\ Len(cur.before) > 0) =>
            \/ pc = "enc_blocks" /\ bi = 0 /\ result = "none"
            \/ pc = "fault" /\ result \in {"Fault:overflow", "Fault:index"}
       /\ (cur.kind = "enc" /\ Len(cur.before) = 0) =>
            \/ pc = "enc_blocks" /\ bi = 0 /\ result = "none"
            \/ pc = "idle" /\ result = "Ok"

ShortBuffersWitness ==
    /\ InCall
    /\ cur.kind = "enc"
    /\ Len(cur.before) = XtsBlockSize - 1
    /\ pc = "fault"
    /\ result = "Fault:index"

\* the byte positions (1-based) where two buffers of one length differ
DiffBytes(a, b) == { i \in 1..Len(a) : a[i] # b[i] }

\* C4: two ciphertexts of length >= 16 that differ in one bit of block i,
\* where i is not one of the two blocks involved in stealing (any block when
\* the length is a multiple of 16, i < n - 1 for a length 16n + r), decrypt
\* under the same cipher and initial tweak to plaintexts that differ in block
\* i and in no byte outside it.
MalleabilityScope ==
    ( /\ Completed("dec")
      /\ twin.on
      /\ Len(cur.before) >= XtsBlockSize )
    => LET n == Len(cur.before) \div XtsBlockSize
           r == Len(cur.before) % XtsBlockSize
           flipped == DiffBytes(cur.before, cur.twin_before.buf)
       IN  \A p \in flipped :
              LET i == (p - 1) \div XtsBlockSize
              IN  (i < n /\ (r = 0 \/ i < n - 1))
                  => /\ DiffBytes(buffer, twin.buf) # {}
                     /\ \A q \in DiffBytes(buffer, twin.buf) :
                           (q - 1) \div XtsBlockSize = i

MalleabilityWitness ==
    /\ Completed("dec")
    /\ twin.on
    /\ Len(cur.before) = 2 * XtsBlockSize + 3
    /\ DiffBytes(cur.before, cur.twin_before.buf) = {XtsBlockSize}
    /\ DiffBytes(buffer, twin.buf) # {}
    /\ \A q \in DiffBytes(buffer, twin.buf) : q <= XtsBlockSize

====
